---- MODULE Spec2Model ----
(***************************************************************************)
(* BlockTheTweet Inference (src/src/main.cpp): the text preprocessor       *)
(* (tokenizeText / stemWord), the POST / and GET / handlers, the route     *)
(* table and the startup sequence of main, with the process-wide handles   *)
(* MODEL, WORD_INDEX, STEMMER and DATABASE.                                *)
(*                                                                         *)
(* A text is a sequence of characters, a word a non-empty sequence of      *)
(* non-blank characters, a vocabulary a function from words to ids.        *)
(***************************************************************************)
EXTENDS Integers, Sequences, FiniteSets, TLC

VARIABLES phase, exitCode, MODEL, WORD_INDEX, DATABASE, STEMMER, worker, clock,
          call

vars == <<phase, exitCode, MODEL, WORD_INDEX, DATABASE, STEMMER, worker, clock,
          call>>

(***************************************************************************)
(* Bounds of the model.                                                    *)
(***************************************************************************)
\* longest text handed to tokenizeText when it is checked as a function
MaxTextLen == 4
\* largest max_length handed to tokenizeText when it is checked as a function
MaxL == 3
\* the clock of the server specification runs from 0 to MaxClock
MaxClock == 1

\* the max_length predictText passes to tokenizeText
SeqLen == 295

\* a null handle
NULL == [null |-> TRUE]

\* a json document that holds no members (the default-constructed null)
NoIndex == [w \in {} |-> 0]

Threads == {"t1", "t2"}

Letters == {"a", "s", "A", "S"}
Blank == " "
Chars == Letters \cup {Blank}

TextsUpTo(n) == UNION {[1..k -> Chars] : k \in 0..n}

Min(a, b) == IF a < b THEN a ELSE b

(***************************************************************************)
(* Library functions the code calls.                                       *)
(***************************************************************************)
\* tolower of one character
tolower(c) == CASE c = "A" -> "a" [] c = "S" -> "s" [] OTHER -> c

\* for (auto& c : word) c = tolower(c);
LowerWord(word) == [i \in 1..Len(word) |-> tolower(word[i])]

\* the stemming rule of the stemmer collaborator: a plural "s" is dropped
Stem(word) ==
    IF Len(word) > 1 /\ word[Len(word)] = "s"
    THEN SubSeq(word, 1, Len(word) - 1)
    ELSE word

\* sb_stemmer_new: an empty working buffer
NewStemmer == [p |-> <<>>, l |-> 0]

\* sb_stemmer_stem(STEMMER, word, size): the word is stemmed in the stemmer's
\* own buffer p, whose bytes past the new length keep their old content; the
\* pointer returned is p itself
sb_stemmer_stem(stemmer, word) ==
    LET s == Stem(word)
    IN  [p |-> s \o SubSeq(stemmer.p, Len(s) + 1, Len(stemmer.p)), l |-> Len(s)]

\* sb_stemmer_length(STEMMER)
sb_stemmer_length(stemmer) == stemmer.l

CharCode(c) ==
    CASE c = "a" -> 97 [] c = "s" -> 115 [] c = "A" -> 65 [] c = "S" -> 83
      [] OTHER -> 32

\* XXH64(input, length, seed): a deterministic hash of the first length bytes
\* of input and the seed
RECURSIVE XXH64(_, _, _)
XXH64(input, length, seed) ==
    IF length = 0
    THEN (seed * 7919 + 374761) % 65536
    ELSE (XXH64(input, length - 1, seed) * 31 + CharCode(input[length])) % 65536

(***************************************************************************)
(* tokenizeText and stemWord, as functions of the text, the vocabulary and *)
(* the stemmer handle they run on.                                         *)
(***************************************************************************)
\* while (stream >> word): the whitespace-separated words of the text
RECURSIVE SplitFrom(_, _, _)
SplitFrom(text, i, cur) ==
    IF i > Len(text)
    THEN IF cur = <<>> THEN <<>> ELSE <<cur>>
    ELSE IF text[i] = Blank
         THEN IF cur = <<>>
              THEN SplitFrom(text, i + 1, <<>>)
              ELSE <<cur>> \o SplitFrom(text, i + 1, <<>>)
         ELSE SplitFrom(text, i + 1, Append(cur, text[i]))

Split(text) == SplitFrom(text, 1, <<>>)

\* std::string(stemmed, stemmed_length): stemmed_length bytes read through the
\* pointer sb_stemmer_stem returned, which is the stemmer's buffer
StemmedString(stemmer, stemmed_length) ==
    SubSeq(stemmer.p, 1, Min(stemmed_length, Len(stemmer.p)))

\* stemWord run without interruption: the stemmer after the call and the string
stemWord(stemmer, word) ==
    LET after == sb_stemmer_stem(stemmer, word)
    IN  [stemmer |-> after,
         word    |-> StemmedString(after, sb_stemmer_length(after))]

\* a faulty lookup: an absent word gets id 1
LookupUnknownIsOne(index, word) ==
    IF word \in DOMAIN index THEN index[word] ELSE 1

\* if (WORD_INDEX.find(word) != WORD_INDEX.end()) ... WORD_INDEX[word] else 0
Lookup(index, word) ==
    IF word \in DOMAIN index THEN index[word] ELSE 0

\* a faulty resize: the padding branch is missing
ResizeTruncateOnly(seq, max_length) ==
    IF Len(seq) > max_length THEN SubSeq(seq, 1, max_length) ELSE seq

\* a faulty resize: the head is dropped in place of the tail
ResizeKeepTail(seq, max_length) ==
    IF Len(seq) > max_length
    THEN SubSeq(seq, Len(seq) - max_length + 1, Len(seq))
    ELSE IF Len(seq) < max_length
         THEN seq \o [i \in 1..(max_length - Len(seq)) |-> 0]
         ELSE seq

\* tokenized_text.resize(max_length) / resize(max_length, 0)
Resize(seq, max_length) ==
    IF Len(seq) > max_length
    THEN SubSeq(seq, 1, max_length)
    ELSE IF Len(seq) < max_length
         THEN seq \o [i \in 1..(max_length - Len(seq)) |-> 0]
         ELSE seq

\* the while loop of tokenizeText over the words left, run without interruption
RECURSIVE TokenizeLoop(_, _, _, _)
TokenizeLoop(stemmer, index, words, tokenized_text) ==
    IF words = <<>>
    THEN [stemmer |-> stemmer, tokenized_text |-> tokenized_text]
    ELSE LET r == stemWord(stemmer, LowerWord(Head(words)))
         IN  TokenizeLoop(r.stemmer, index, Tail(words),
                          Append(tokenized_text, Lookup(index, r.word)))

tokenizeText(stemmer, index, text, max_length) ==
    LET r == TokenizeLoop(stemmer, index, Split(text), <<>>)
    IN  [stemmer |-> r.stemmer,
         tokenized_text |-> Resize(r.tokenized_text, max_length)]

(***************************************************************************)
(* The vocabularies word-index.json may hold.                              *)
(***************************************************************************)
VocabA == (<<"a">> :> 1) @@ (<<"s">> :> 2) @@ (<<"a", "s">> :> 3)
            @@ (<<"A">> :> 4) @@ (<<"s", "s">> :> 5)
VocabB == (<<"s">> :> 7)
Vocabularies == {VocabA, VocabB}

(***************************************************************************)
(* Requests and JSON documents.  A body is either text that is no JSON     *)
(* document or a document: null, a number, an array, a string or an object *)
(* (a function from member names to documents).                            *)
(***************************************************************************)
ReqTexts == {<<>>, <<"a">>, <<"S">>, <<"s", " ", "a">>}

JNull == [type |-> "null"]
JNumber == [type |-> "number"]
JArray == [type |-> "array"]
JString(x) == [type |-> "string", value |-> x]
JObject(m) == [type |-> "object", members |-> m]
NoMembers == [k \in {} |-> JNull]

BadBodies == {[valid |-> FALSE, raw |-> "not json"], [valid |-> FALSE, raw |-> ""]}

NoTextDocs ==
    {JNull, JNumber, JArray, JString(<<"a">>), JObject(NoMembers),
     JObject("other" :> JString(<<"a">>)),
     JObject("text" :> JNumber), JObject("text" :> JNull)}

TextDocs ==
    {JObject("text" :> JString(x)) : x \in ReqTexts}
      \cup {JObject(("text" :> JString(<<"a">>)) @@ ("other" :> JNumber))}

Bodies == BadBodies \cup {[valid |-> TRUE, doc |-> d] : d \in NoTextDocs \cup TextDocs}

NoBody == [valid |-> FALSE, raw |-> ""]

\* the scalar outputs the model may produce and the values an uninitialized
\* float or long long may hold
Floats == {25, 75}
AnyNanosecond == {-1, 0}

ParseError == [type |-> "parse_error"]
TypeError == [type |-> "type_error"]

\* nlohmann::json::parse(req.body)
json_parse(body) == IF body.valid THEN body.doc ELSE ParseError

\* reqBody["text"] on a non-const document: null becomes an object, a missing
\* member is inserted as null, any other type throws type_error
json_index(doc, key) ==
    CASE doc.type = "null" -> JNull
      [] doc.type = "object" ->
            IF key \in DOMAIN doc.members THEN doc.members[key] ELSE JNull
      [] OTHER -> TypeError

\* the conversion of a document to std::string
json_get_string(v) ==
    IF v.type = "string" THEN v ELSE TypeError

\* std::string text = reqBody["text"];
RequestText(doc) == json_get_string(json_index(doc, "text"))

(***************************************************************************)
(* Responses.                                                              *)
(***************************************************************************)
NoHeaders == [h \in {} |-> ""]

\* constructResponse(statusCode, message)
constructResponse(statusCode, message) ==
    [statusCode |-> statusCode, message |-> message]

\* constructResponse(statusCode, message, data)
constructResponseData(statusCode, message, data) ==
    [statusCode |-> statusCode, message |-> message, data |-> data]

\* Prediction::toResponseData
toResponseData(prediction) ==
    [text_hash |-> prediction.text_hash, text |-> prediction.text,
     confidence |-> prediction.confidence, nanosecond |-> prediction.nanosecond]

\* res.set_header("Access-Control-Allow-Origin", "*")
CorsHeader == "Access-Control-Allow-Origin" :> "*"

\* a faulty catch of the parse: res.status is left at its default
ParseFailureResponseOk ==
    [status |-> 200, headers |-> CorsHeader,
     body |-> constructResponse(400, "Bad Request")]

\* the catch of the parse at the top of postClassifyText
ParseFailureResponse ==
    [status |-> 400, headers |-> CorsHeader,
     body |-> constructResponse(400, "Bad Request")]

\* the outer catch of postClassifyText
ExceptionResponse ==
    [status |-> 500, headers |-> CorsHeader,
     body |-> constructResponse(500, "Internal Server Error")]

\* res.status = 200; res.set_content(prediction.toResponseData(), ...)
PredictionResponse(prediction) ==
    [status |-> 200, headers |-> CorsHeader, body |-> toResponseData(prediction)]

\* getInformations
InformationResponse ==
    [status |-> 200, headers |-> CorsHeader,
     body |-> constructResponseData(200, "success",
                 [author |-> "doddy-s", version |-> "v0.1",
                  appName |-> "BlockTheTweet Inference"])]

\* the handler attachRoutes registers for OPTIONS on every path
OptionsResponse ==
    [status |-> 204,
     headers |-> CorsHeader
        @@ ("Access-Control-Allow-Methods" :> "GET, POST, PUT, DELETE, OPTIONS")
        @@ ("Access-Control-Allow-Headers" :> "Content-Type, Authorization")
        @@ ("Access-Control-Max-Age" :> "86400"),
     body |-> ""]

\* a request no route of attachRoutes matches: no handler of this program runs
NoRouteResponse == [status |-> 404, headers |-> NoHeaders, body |-> ""]

\* a faulty hash call: seed 1
TextHashSeedOne(text) == XXH64(text, Len(text), 1)

\* auto text_hash = XXH64(text.c_str(), text.size(), 0);
TextHash(text) == XXH64(text, Len(text), 0)

\* a faulty duration: the operands are swapped
PredictTimeSwapped(beginOfPredictTime, endOfPredictTime) ==
    beginOfPredictTime - endOfPredictTime

\* duration_cast<nanoseconds>(endOfPredictTime - beginOfPredictTime).count()
PredictTime(beginOfPredictTime, endOfPredictTime) ==
    endOfPredictTime - beginOfPredictTime

Methods == {"GET", "POST", "OPTIONS", "PUT"}
Paths == {"/", "/x"}

\* the routes attachRoutes registers
Route(method, path) ==
    CASE method = "OPTIONS" -> "options"
      [] method = "GET" /\ path = "/" -> "getInformations"
      [] method = "POST" /\ path = "/" -> "postClassifyText"
      [] OTHER -> "none"

Idle == [pc |-> "idle"]

\* no call of tokenizeText as a function is under way
NoCall == [state |-> "none"]

Responded(req, res, calls, outcome) ==
    [pc |-> "responded", req |-> req, res |-> res, calls |-> calls,
     outcome |-> outcome]

\* predicted: what predictText returned, "none" when it was not called
NoOutcome == [predicted |-> "none"]

(***************************************************************************)
(* main: the handles are loaded in order; an exception ends the process    *)
(* with -1, and sb_stemmer_new reports failure by returning NULL.          *)
(***************************************************************************)
Init ==
    /\ phase = "start"
    /\ exitCode = 0
    /\ MODEL = "unloaded"
    /\ WORD_INDEX = NoIndex
    /\ DATABASE = "null"
    /\ STEMMER = NULL
    /\ worker = [t \in Threads |-> Idle]
    /\ clock = 0
    /\ call = NoCall

\* what sb_stemmer_new("english", nullptr) may return
StemmerNewResults == {NULL, NewStemmer}

main ==
    /\ phase = "start"
    /\ \E modelOk \in BOOLEAN, indexOk \in BOOLEAN, index \in Vocabularies,
          dbOk \in BOOLEAN, stemmer \in StemmerNewResults :
          IF ~modelOk
          THEN /\ phase' = "exited" /\ exitCode' = -1
               /\ UNCHANGED <<MODEL, WORD_INDEX, DATABASE, STEMMER>>
          ELSE IF ~indexOk
          THEN /\ phase' = "exited" /\ exitCode' = -1
               /\ MODEL' = "loaded"
               /\ UNCHANGED <<WORD_INDEX, DATABASE, STEMMER>>
          ELSE IF ~dbOk
          THEN /\ phase' = "exited" /\ exitCode' = -1
               /\ MODEL' = "loaded" /\ WORD_INDEX' = index
               /\ UNCHANGED <<DATABASE, STEMMER>>
          ELSE /\ phase' = "listening"
               /\ MODEL' = "loaded" /\ WORD_INDEX' = index
               /\ DATABASE' = "open" /\ STEMMER' = stemmer
               /\ UNCHANGED exitCode
    /\ UNCHANGED <<worker, clock, call>>

(***************************************************************************)
(* Request handling: each worker thread of the server takes one request at *)
(* a time and runs its handler to the response.                            *)
(***************************************************************************)
Handles == <<phase, exitCode, MODEL, WORD_INDEX, DATABASE, STEMMER>>

optionsHandler(t) ==
    /\ phase = "listening" /\ worker[t].pc = "idle"
    /\ \E path \in Paths :
          LET req == [method |-> "OPTIONS", path |-> path, body |-> NoBody]
          IN  /\ Route(req.method, req.path) = "options"
              /\ worker' = [worker EXCEPT ![t] =
                               Responded(req, OptionsResponse, <<>>, NoOutcome)]
    /\ UNCHANGED <<Handles, clock, call>>

getInformations(t) ==
    /\ phase = "listening" /\ worker[t].pc = "idle"
    /\ LET req == [method |-> "GET", path |-> "/", body |-> NoBody]
       IN  /\ Route(req.method, req.path) = "getInformations"
           /\ worker' = [worker EXCEPT ![t] =
                            Responded(req, InformationResponse, <<>>, NoOutcome)]
    /\ UNCHANGED <<Handles, clock, call>>

noRoute(t) ==
    /\ phase = "listening" /\ worker[t].pc = "idle"
    /\ \E method \in Methods, path \in Paths :
          LET req == [method |-> method, path |-> path, body |-> NoBody]
          IN  /\ Route(method, path) = "none"
              /\ worker' = [worker EXCEPT ![t] =
                               Responded(req, NoRouteResponse, <<>>, NoOutcome)]
    /\ UNCHANGED <<Handles, clock, call>>

\* postClassifyText up to the call of tokenizeText in predictText
postClassifyText(t) ==
    /\ phase = "listening" /\ worker[t].pc = "idle"
    /\ \E body \in Bodies :
          LET req == [method |-> "POST", path |-> "/", body |-> body]
              reqBody == json_parse(body)
              converted == IF reqBody = ParseError THEN TypeError
                           ELSE RequestText(reqBody)
              text == converted.value
          IN  /\ Route(req.method, req.path) = "postClassifyText"
              /\ worker' = [worker EXCEPT ![t] =
                    IF reqBody = ParseError
                    THEN Responded(req, ParseFailureResponse, <<>>, NoOutcome)
                    ELSE IF converted = TypeError
                    THEN Responded(req, ExceptionResponse, <<>>, NoOutcome)
                    ELSE [pc |-> "tokenize", req |-> req, text |-> text,
                          text_hash |-> TextHash(text),
                          calls |-> <<"XXH64", "tokenizeText">>,
                          words |-> Split(text), tokenized_text |-> <<>>]]
    /\ UNCHANGED <<Handles, clock, call>>

\* stemWord: sb_stemmer_stem on the word, lowercased; a NULL handle is
\* dereferenced and the process dies
stemWord_stem(t) ==
    /\ phase = "listening" /\ worker[t].pc = "tokenize"
    /\ worker[t].words # <<>>
    /\ IF STEMMER = NULL
       THEN /\ phase' = "crashed"
            /\ UNCHANGED <<STEMMER, worker>>
       ELSE /\ STEMMER' = sb_stemmer_stem(STEMMER, LowerWord(Head(worker[t].words)))
            /\ worker' = [worker EXCEPT ![t].pc = "length"]
            /\ UNCHANGED phase
    /\ UNCHANGED <<exitCode, MODEL, WORD_INDEX, DATABASE, clock, call>>

\* stemWord: int stemmed_length = sb_stemmer_length(STEMMER);
stemWord_length(t) ==
    /\ phase = "listening" /\ worker[t].pc = "length"
    /\ worker' = [worker EXCEPT ![t] =
          [pc |-> "lookup", req |-> @.req, text |-> @.text,
           text_hash |-> @.text_hash, calls |-> @.calls, words |-> @.words,
           tokenized_text |-> @.tokenized_text,
           stemmed_length |-> sb_stemmer_length(STEMMER)]]
    /\ UNCHANGED <<Handles, clock, call>>

\* stemWord returns the string read from the stemmer's buffer; tokenizeText
\* looks it up and pushes the id
tokenizeText_push(t) ==
    /\ phase = "listening" /\ worker[t].pc = "lookup"
    /\ LET word == StemmedString(STEMMER, worker[t].stemmed_length)
       IN  worker' = [worker EXCEPT ![t] =
              [pc |-> "tokenize", req |-> @.req, text |-> @.text,
               text_hash |-> @.text_hash, calls |-> @.calls,
               words |-> Tail(@.words),
               tokenized_text |->
                   Append(@.tokenized_text, Lookup(WORD_INDEX, word))]]
    /\ UNCHANGED <<Handles, clock, call>>

\* tokenizeText resizes and returns; predictText builds the tensor and reads
\* beginOfPredictTime
tokenizeText_return(t) ==
    /\ phase = "listening" /\ worker[t].pc = "tokenize"
    /\ worker[t].words = <<>>
    /\ worker' = [worker EXCEPT ![t] =
          [pc |-> "forward", req |-> @.req, text |-> @.text,
           text_hash |-> @.text_hash, calls |-> Append(@.calls, "forward"),
           input_data |-> Resize(@.tokenized_text, SeqLen),
           beginOfPredictTime |-> clock]]
    /\ UNCHANGED <<Handles, clock, call>>

\* MODEL.forward returns or throws; predictText fills the prediction and
\* returns true, or catches and returns false; postClassifyText drops that
\* result and answers 200 with the prediction as it stands
predictText_forward(t) ==
    /\ phase = "listening" /\ worker[t].pc = "forward"
    /\ \E threw \in BOOLEAN, confidence \in Floats, garbage \in AnyNanosecond :
          LET w == worker[t]
              predictTime == PredictTime(w.beginOfPredictTime, clock)
              prediction ==
                  IF threw
                  THEN [text_hash |-> w.text_hash, text |-> <<>>,
                        confidence |-> confidence, nanosecond |-> garbage]
                  ELSE [text_hash |-> w.text_hash, text |-> w.text,
                        confidence |-> confidence, nanosecond |-> predictTime]
              outcome ==
                  IF threw
                  THEN [predicted |-> "false"]
                  ELSE [predicted |-> "true", confidence |-> confidence,
                        predictTime |-> predictTime]
          IN  /\ ~threw => garbage = 0
              /\ worker' = [worker EXCEPT ![t] =
                    Responded(w.req, PredictionResponse(prediction), w.calls,
                              outcome)]
    /\ UNCHANGED <<Handles, clock, call>>

\* the response is sent and the thread takes the next request
complete(t) ==
    /\ phase = "listening" /\ worker[t].pc = "responded"
    /\ worker' = [worker EXCEPT ![t] = Idle]
    /\ UNCHANGED <<Handles, clock, call>>

\* time passes
tick ==
    /\ phase = "listening" /\ clock < MaxClock
    /\ clock' = clock + 1
    /\ UNCHANGED <<Handles, worker, call>>

Next ==
    \/ main
    \/ tick
    \/ \E t \in Threads : optionsHandler(t)
    \/ \E t \in Threads : getInformations(t)
    \/ \E t \in Threads : noRoute(t)
    \/ \E t \in Threads : postClassifyText(t)
    \/ \E t \in Threads : stemWord_stem(t)
    \/ \E t \in Threads : stemWord_length(t)
    \/ \E t \in Threads : tokenizeText_push(t)
    \/ \E t \in Threads : tokenizeText_return(t)
    \/ \E t \in Threads : predictText_forward(t)
    \/ \E t \in Threads : complete(t)

Spec == Init /\ [][Next]_vars

(***************************************************************************)
(* Properties of the server.                                               *)
(***************************************************************************)
IsPost(w) == w.req.method = "POST" /\ w.req.path = "/"

\* the body is a JSON object whose member text is a string
HasStringText(body) ==
    /\ body.valid
    /\ body.doc.type = "object"
    /\ "text" \in DOMAIN body.doc.members
    /\ body.doc.members["text"].type = "string"

BodyText(body) == body.doc.members["text"].value

BadRequestBody == [statusCode |-> 400, message |-> "Bad Request"]
ServerErrorBody == [statusCode |-> 500, message |-> "Internal Server Error"]

\* C1: a POST / with a valid body whose model call failed is answered 500
\* with {statusCode:500, message:"Internal Server Error"}, never 200.
C1_FailedInferenceIs500 ==
    \A t \in Threads :
        LET w == worker[t]
        IN  (/\ w.pc = "responded" /\ IsPost(w)
             /\ HasStringText(w.req.body)
             /\ w.outcome.predicted = "false")
            => /\ w.res.status = 500
               /\ w.res.body = ServerErrorBody

\* C2: a POST / whose body is JSON without a string text is answered 400
\* with {statusCode:400, message:"Bad Request"}, and neither tokenizeText nor
\* the model runs for it.
C2_MissingTextIs400 ==
    \A t \in Threads :
        LET w == worker[t]
        IN  (/\ w.pc = "responded" /\ IsPost(w)
             /\ w.req.body.valid /\ ~HasStringText(w.req.body))
            => /\ w.res.status = 400
               /\ w.res.body = BadRequestBody
               /\ w.calls = <<>>

\* C3: a POST / whose body is no JSON document (the empty body included) is
\* answered 400 with {statusCode:400, message:"Bad Request"}, and the handler
\* returns before the hash is computed and before predictText is called.
C3_InvalidJsonIs400 ==
    \A t \in Threads :
        LET w == worker[t]
        IN  (/\ w.pc # "idle" /\ IsPost(w) /\ ~w.req.body.valid)
            => /\ w.pc = "responded"
               /\ w.res.status = 400
               /\ w.res.body = BadRequestBody
               /\ w.calls = <<>>

C3_Witness ==
    \E t \in Threads :
        /\ worker[t].pc = "responded" /\ IsPost(worker[t])
        /\ ~worker[t].req.body.valid
        /\ worker[t].req.body.raw = ""
        /\ worker[t].res.status = 400

\* C7: a POST / with body {"text": t} whose inference succeeded is answered
\* 200 with text = t, text_hash = the seed-0 hash of t (computed first, before
\* preprocessing and inference), and the confidence and nanosecond of this
\* request's model call, nanosecond >= 0.
C7_SuccessResponse ==
    \A t \in Threads :
        LET w == worker[t]
        IN  /\ (w.pc \in {"tokenize", "length", "lookup", "forward"})
                  => /\ w.calls[1] = "XXH64"
                     /\ w.text_hash = XXH64(BodyText(w.req.body),
                                            Len(BodyText(w.req.body)), 0)
            /\ (/\ w.pc = "responded" /\ IsPost(w)
                /\ w.outcome.predicted = "true")
                  => /\ HasStringText(w.req.body)
                     /\ w.res.status = 200
                     /\ w.res.body.text = BodyText(w.req.body)
                     /\ w.res.body.text_hash =
                           XXH64(BodyText(w.req.body),
                                 Len(BodyText(w.req.body)), 0)
                     /\ w.res.body.confidence = w.outcome.confidence
                     /\ w.res.body.nanosecond = w.outcome.predictTime
                     /\ w.res.body.nanosecond >= 0
                     /\ w.calls = <<"XXH64", "tokenizeText", "forward">>

C7_Witness ==
    \E t \in Threads :
        /\ worker[t].pc = "responded" /\ IsPost(worker[t])
        /\ worker[t].outcome.predicted = "true"
        /\ BodyText(worker[t].req.body) = <<"s", " ", "a">>
        /\ worker[t].res.status = 200
        /\ worker[t].res.body.nanosecond > 0

\* C8: every response carries Access-Control-Allow-Origin: *, whatever the
\* method and path (requests that match no route included), and OPTIONS is
\* answered 204 with the allowed-methods, allowed-headers and max-age headers.
C8_EveryResponseHasCors ==
    \A t \in Threads :
        LET w == worker[t]
        IN  w.pc = "responded" =>
               /\ "Access-Control-Allow-Origin" \in DOMAIN w.res.headers
               /\ w.res.headers["Access-Control-Allow-Origin"] = "*"
               /\ w.req.method = "OPTIONS" =>
                     /\ w.res.status = 204
                     /\ {"Access-Control-Allow-Methods",
                         "Access-Control-Allow-Headers",
                         "Access-Control-Max-Age"} \subseteq DOMAIN w.res.headers

\* C9: whenever the server accepts connections, MODEL, WORD_INDEX and STEMMER
\* have been initialized, and a process that ended in startup ended with a
\* non-zero status.
C9_ListeningImpliesInitialized ==
    /\ phase \in {"listening", "crashed"} =>
          /\ MODEL = "loaded"
          /\ WORD_INDEX \in Vocabularies
          /\ STEMMER # NULL
    /\ phase = "exited" => exitCode # 0

\* C10: in every interleaving of concurrent POST / requests, the token
\* sequence a request computes is the one tokenizeText computes for its text
\* when it runs alone.
C10_SequenceAsAlone ==
    \A t \in Threads :
        worker[t].pc = "forward" =>
            worker[t].input_data =
                tokenizeText(NewStemmer, WORD_INDEX, worker[t].text,
                             SeqLen).tokenized_text

(***************************************************************************)
(* tokenizeText checked as a function: the text, the target length, the    *)
(* vocabulary and the content an earlier call left in the stemmer's buffer *)
(* are drawn at Init, and TokCall applies tokenizeText to them.            *)
(***************************************************************************)
UsedStemmers ==
    {NewStemmer} \cup
    {sb_stemmer_stem(NewStemmer, w) : w \in {<<"a">>, <<"s", "s", "s">>}}

InitTok ==
    /\ phase = "listening"
    /\ exitCode = 0
    /\ MODEL = "loaded"
    /\ DATABASE = "open"
    /\ WORD_INDEX \in Vocabularies
    /\ STEMMER \in UsedStemmers
    /\ worker = [t \in Threads |-> Idle]
    /\ clock = 0
    /\ call \in {[state |-> "drawn", text |-> x, max_length |-> n] :
                    x \in TextsUpTo(MaxTextLen), n \in 0..MaxL}

TokCall ==
    /\ call.state = "drawn"
    /\ LET r == tokenizeText(STEMMER, WORD_INDEX, call.text, call.max_length)
       IN  /\ STEMMER' = r.stemmer
           /\ call' = [state |-> "returned", text |-> call.text,
                       max_length |-> call.max_length,
                       tokenized_text |-> r.tokenized_text]
    /\ UNCHANGED <<phase, exitCode, MODEL, WORD_INDEX, DATABASE, worker, clock>>

NextTok == TokCall

SpecTok == InitTok /\ [][NextTok]_vars

(***************************************************************************)
(* Properties of tokenizeText.                                             *)
(***************************************************************************)
\* the first n of the words, joined by single blanks
RECURSIVE JoinFirst(_, _)
JoinFirst(words, n) ==
    IF n = 0 \/ words = <<>>
    THEN <<>>
    ELSE IF n = 1 \/ Len(words) = 1
         THEN Head(words)
         ELSE Head(words) \o <<Blank>> \o JoinFirst(Tail(words), n - 1)

\* the lowercased, stemmed form of a token
Normalized(token) == Stem(LowerWord(token))

CallTokens == Split(call.text)
CallCount == Len(CallTokens)

\* C4: the sequence tokenizeText(text, L) returns has exactly L entries, for
\* every text (the empty one and those with more than L tokens included) and
\* every L.
C4_ExactLength ==
    call.state = "returned" => Len(call.tokenized_text) = call.max_length

C4_Witness ==
    /\ call.state = "returned"
    /\ call.max_length > 0
    /\ CallCount > call.max_length
    /\ Len(call.tokenized_text) = call.max_length

\* C5: tokenizeText keeps the ids in token order and cuts or pads at the tail
\* only: with more than L tokens the result is that of tokenizeText on the
\* first L tokens alone; with count < L tokens the first count entries are the
\* tokens' ids in order and the last L - count entries are 0.
C5_TailTruncatePad ==
    call.state = "returned" =>
        /\ CallCount > call.max_length =>
              call.tokenized_text =
                 tokenizeText(STEMMER, WORD_INDEX,
                              JoinFirst(CallTokens, call.max_length),
                              call.max_length).tokenized_text
        /\ \A i \in 1..Min(CallCount, call.max_length) :
              call.tokenized_text[i] =
                 (IF Normalized(CallTokens[i]) \in DOMAIN WORD_INDEX
                  THEN WORD_INDEX[Normalized(CallTokens[i])] ELSE 0)
        /\ CallCount < call.max_length =>
              /\ Len(call.tokenized_text) = call.max_length
              /\ \A i \in (CallCount + 1)..call.max_length :
                    call.tokenized_text[i] = 0

C5_Witness ==
    /\ call.state = "returned"
    /\ CallCount = 2
    /\ call.max_length = 1
    /\ Normalized(CallTokens[1]) \in DOMAIN WORD_INDEX
    /\ Normalized(CallTokens[2]) \in DOMAIN WORD_INDEX
    /\ WORD_INDEX[Normalized(CallTokens[1])] # WORD_INDEX[Normalized(CallTokens[2])]
    /\ call.tokenized_text = <<WORD_INDEX[Normalized(CallTokens[1])]>>

\* C6: a token whose lowercased, stemmed form is absent from WORD_INDEX
\* contributes id 0 and no other id, a token whose form is present contributes
\* the id WORD_INDEX stores for it, and the call returns either way.
C6_UnknownIsZero ==
    call.state = "returned" =>
        \A i \in 1..Min(CallCount, call.max_length) :
            LET w == Normalized(CallTokens[i])
            IN  /\ i <= Len(call.tokenized_text)
                /\ w \notin DOMAIN WORD_INDEX => call.tokenized_text[i] = 0
                /\ w \in DOMAIN WORD_INDEX =>
                      call.tokenized_text[i] = WORD_INDEX[w]

C6_Witness ==
    /\ call.state = "returned"
    /\ CallCount = 2
    /\ call.max_length >= 2
    /\ Normalized(CallTokens[1]) \notin DOMAIN WORD_INDEX
    /\ Normalized(CallTokens[2]) \in DOMAIN WORD_INDEX
    /\ CallTokens[2] \notin DOMAIN WORD_INDEX
    /\ call.tokenized_text[1] = 0
    /\ call.tokenized_text[2] = WORD_INDEX[Normalized(CallTokens[2])]

====
